---- MODULE Spec2Model ----
(***************************************************************************)
(* Model of tools/convert-icons.py: a linear script that imports cairosvg, *)
(* checks that chat-icon.svg exists next to the script, and renders it to  *)
(* one square PNG per entry of `sizes`, printing a line after each render. *)
(*                                                                         *)
(* The script's messages are Chinese text in the source; the model carries *)
(* them as ASCII glosses, one string per print() call.                     *)
(* Standard output is assumed writable (print() itself never raises).      *)
(***************************************************************************)
EXTENDS Integers, Sequences, FiniteSets, TLC

VARIABLES
    hasBinding,     \* host: the cairosvg package is installed
    hasNative,      \* host: libcairo / cairo.dll can be loaded
    svgExists,      \* host: chat-icon.svg is present next to the script
    srcSizes,       \* host: the list literal on line 27 of the script file
    sizes,          \* the module-level name `sizes` (<<>> while unbound)
    pc,             \* position of the interpreter in the script
    imported,       \* the name cairosvg is bound (the import succeeded)
    existsChecked,  \* os.path.exists(svg_file) has been evaluated
    i,              \* index of the for loop into sizes (1-based)
    disk,           \* current working directory: file name -> image dims
    stdout,         \* lines printed by this run
    stderr,         \* lines of the interpreter's own diagnostics
    exitStatus,     \* process exit status, meaningful when pc = "exited"
    attempted,      \* sizes for which svg2png was called, in call order
    written,        \* out_files whose svg2png call returned, in order
    failed,         \* a svg2png call of this run raised
    run,            \* ordinal of the current execution of the script
    prev            \* what the previous execution left behind

vars == <<hasBinding, hasNative, svgExists, srcSizes, sizes, pc, imported,
          existsChecked, i, disk, stdout, stderr, exitStatus, attempted,
          written, failed, run, prev>>

env == <<hasBinding, hasNative, svgExists, srcSizes>>

-----------------------------------------------------------------------------
(* Bounds *)

MaxRuns == 2
MaxInitLen == 2

-----------------------------------------------------------------------------
(* Helpers *)

Range(s) == {s[k] : k \in DOMAIN s}

IsDistinct(s) == \A a, b \in DOMAIN s : a # b => s[a] # s[b]

InsertAt(s, k, n) == SubSeq(s, 1, k - 1) \o <<n>> \o SubSeq(s, k, Len(s))

RECURSIVE SelectLines(_, _)
SelectLines(s, keep) ==
    IF s = <<>> THEN <<>>
    ELSE IF Head(s) \in keep THEN <<Head(s)>> \o SelectLines(Tail(s), keep)
         ELSE SelectLines(Tail(s), keep)

-----------------------------------------------------------------------------
(* The script's data *)

DefaultSizes == <<16, 48, 128, 300>>

\* sizes that are not in the shipped list: a size a user may add, and the
\* name of a file an older configuration may have left in the directory
ExtraSizes == {32}

SizeUniverse == Range(DefaultSizes) \cup ExtraSizes

\* variant: the size is left out of the file name
OutFile_noSize(size) == "chat-icon" \o ".png"

OutFile(size) == "chat-icon-" \o ToString(size) \o ".png"

FileNames == {OutFile(s) : s \in SizeUniverse}

\* variant: output_height is not passed, the height is not the size
Rendered_widthOnly(size) == [w |-> size, h |-> 1]

\* what svg2png(output_width=size, output_height=size) leaves in write_to
Rendered(size) == [w |-> size, h |-> size]

\* a file a failed write left behind: opened for writing, no image in it
Truncated == [w |-> 0, h |-> 0]

\* a file that was in the directory before the first run
Stale == [w |-> 1, h |-> 1]

CairoMissingLines ==
    << "Cairo library not installed or not found (libcairo / cairo.dll)",
       "Windows -> install GTK runtime",
       "Linux  -> apt install libcairo2",
       "macOS  -> brew install cairo" >>

BindingMissingLine == "cairosvg required: pip install cairosvg"

SvgMissingLine == "cannot get chat-icon.svg"

ConvertedLine(out_file) == "converted: " \o out_file

Traceback == "Traceback (most recent call last)"

\* variant: the native library is probed before the package is looked up
ImportCairosvg_nativeFirst(binding, native) ==
    IF ~native THEN "OSError"
    ELSE IF ~binding THEN "ImportError"
    ELSE "ok"

\* the outcome of the statement `import cairosvg` on a host
ImportCairosvg(binding, native) ==
    IF ~binding THEN "ImportError"
    ELSE IF ~native THEN "OSError"
    ELSE "ok"

Confirmations == SelectLines(stdout, {ConvertedLine(f) : f \in FileNames})

-----------------------------------------------------------------------------
(* Initial states *)

InitRun ==
    /\ pc = "import"
    /\ sizes = <<>>
    /\ imported = FALSE
    /\ existsChecked = FALSE
    /\ i = 1
    /\ stdout = <<>>
    /\ stderr = <<>>
    /\ exitStatus = 0
    /\ attempted = <<>>
    /\ written = <<>>
    /\ failed = FALSE
    /\ run = 1

InitHost(dirs) ==
    /\ hasBinding \in BOOLEAN
    /\ hasNative \in BOOLEAN
    /\ svgExists \in BOOLEAN
    /\ \E present \in dirs : disk = [f \in present |-> Stale]

Init ==
    /\ InitHost(SUBSET FileNames)
    /\ InitRun
    /\ srcSizes = DefaultSizes
    /\ prev = [exitStatus |-> 1, written |-> <<>>, disk |-> disk,
               sizes |-> <<>>]

-----------------------------------------------------------------------------
(* Lines 14-28: try: import cairosvg / except OSError / except ImportError, *)
(* then the two assignments that follow a successful import               *)

ImportOK ==
    /\ pc = "import"
    /\ ImportCairosvg(hasBinding, hasNative) = "ok"
    /\ imported' = TRUE
    /\ sizes' = srcSizes
    /\ pc' = "exists"
    /\ UNCHANGED <<env, existsChecked, i, disk, stdout, stderr,
                   exitStatus, attempted, written, failed, run, prev>>

\* variant: the handler prints and falls through (no sys.exit)
ImportOSError_noExit ==
    /\ pc = "import"
    /\ ImportCairosvg(hasBinding, hasNative) = "OSError"
    /\ stdout' = stdout \o CairoMissingLines
    /\ sizes' = srcSizes
    /\ pc' = "exists"
    /\ UNCHANGED <<env, imported, existsChecked, i, disk, stderr, exitStatus,
                   attempted, written, failed, run, prev>>

ImportOSError ==
    /\ pc = "import"
    /\ ImportCairosvg(hasBinding, hasNative) = "OSError"
    /\ stdout' = stdout \o CairoMissingLines
    /\ exitStatus' = 1
    /\ pc' = "exited"
    /\ UNCHANGED <<env, sizes, imported, existsChecked, i, disk, stderr,
                   attempted, written, failed, run, prev>>

ImportImportError ==
    /\ pc = "import"
    /\ ImportCairosvg(hasBinding, hasNative) = "ImportError"
    /\ stdout' = Append(stdout, BindingMissingLine)
    /\ exitStatus' = 1
    /\ pc' = "exited"
    /\ UNCHANGED <<env, sizes, imported, existsChecked, i, disk, stderr,
                   attempted, written, failed, run, prev>>

(* Lines 30-32: if not os.path.exists(svg_file) *)

\* variant: the branch prints and falls through (no sys.exit)
SvgMissing_noExit ==
    /\ pc = "exists"
    /\ ~svgExists
    /\ existsChecked' = TRUE
    /\ stdout' = Append(stdout, SvgMissingLine)
    /\ i' = 1
    /\ pc' = "for"
    /\ UNCHANGED <<env, sizes, imported, disk, stderr, exitStatus, attempted,
                   written, failed, run, prev>>

SvgMissing ==
    /\ pc = "exists"
    /\ ~svgExists
    /\ existsChecked' = TRUE
    /\ stdout' = Append(stdout, SvgMissingLine)
    /\ exitStatus' = 1
    /\ pc' = "exited"
    /\ UNCHANGED <<env, sizes, imported, i, disk, stderr, attempted,
                   written, failed, run, prev>>

SvgFound ==
    /\ pc = "exists"
    /\ svgExists
    /\ existsChecked' = TRUE
    /\ i' = 1
    /\ pc' = "for"
    /\ UNCHANGED <<env, sizes, imported, disk, stdout, stderr, exitStatus,
                   attempted, written, failed, run, prev>>

(* Line 34: for size in sizes *)

ForNext ==
    /\ pc = "for"
    /\ i <= Len(sizes)
    /\ pc' = "render"
    /\ UNCHANGED <<env, sizes, imported, existsChecked, i, disk, stdout,
                   stderr, exitStatus, attempted, written, failed, run, prev>>

\* the list is exhausted: the script falls off its end, status 0
ForDone ==
    /\ pc = "for"
    /\ i > Len(sizes)
    /\ exitStatus' = 0
    /\ pc' = "exited"
    /\ UNCHANGED <<env, sizes, imported, existsChecked, i, disk, stdout,
                   stderr, attempted, written, failed, run, prev>>

(* Lines 35-38: out_file = ...; cairosvg.svg2png(...) *)

\* variant: a size whose out_file is already there is skipped
RenderOK_skipExisting ==
    /\ pc = "render"
    /\ svgExists
    /\ LET size == sizes[i]
           out_file == OutFile(size)
       IN IF out_file \in DOMAIN disk
          THEN UNCHANGED <<disk, attempted, written>>
          ELSE /\ disk' = [f \in DOMAIN disk \cup {out_file} |->
                             IF f = out_file THEN Rendered(size) ELSE disk[f]]
               /\ attempted' = Append(attempted, size)
               /\ written' = Append(written, out_file)
    /\ pc' = "print"
    /\ UNCHANGED <<env, sizes, imported, existsChecked, i, stdout, stderr,
                   exitStatus, failed, run, prev>>

\* variant: the loop body ends with the render, nothing is printed
RenderOK_noPrint ==
    /\ pc = "render"
    /\ svgExists
    /\ LET size == sizes[i]
           out_file == OutFile(size)
       IN /\ disk' = [f \in DOMAIN disk \cup {out_file} |->
                        IF f = out_file THEN Rendered(size) ELSE disk[f]]
          /\ attempted' = Append(attempted, size)
          /\ written' = Append(written, out_file)
    /\ i' = i + 1
    /\ pc' = "for"
    /\ UNCHANGED <<env, sizes, imported, existsChecked, stdout, stderr,
                   exitStatus, failed, run, prev>>

\* the call returns: out_file holds a size x size image, whatever it held
\* before; it can only return when the svg behind url= is there to be read
RenderOK ==
    /\ pc = "render"
    /\ svgExists
    /\ LET size == sizes[i]
           out_file == OutFile(size)
       IN /\ disk' = [f \in DOMAIN disk \cup {out_file} |->
                        IF f = out_file THEN Rendered(size) ELSE disk[f]]
          /\ attempted' = Append(attempted, size)
          /\ written' = Append(written, out_file)
    /\ pc' = "print"
    /\ UNCHANGED <<env, sizes, imported, existsChecked, i, stdout, stderr,
                   exitStatus, failed, run, prev>>

\* variant: the exception is caught and the loop goes on to the next size
RenderFail_continue ==
    /\ pc = "render"
    /\ attempted' = Append(attempted, sizes[i])
    /\ failed' = TRUE
    /\ i' = i + 1
    /\ pc' = "for"
    /\ UNCHANGED <<env, sizes, imported, existsChecked, disk, stdout, stderr,
                   exitStatus, written, run, prev>>

\* the call raises (unreadable or malformed svg, failed write): nothing
\* catches it, the interpreter prints a traceback and exits with status 1.
\* out_file is either untouched or left truncated by the failed write.
RenderFail ==
    /\ pc = "render"
    /\ LET size == sizes[i]
           out_file == OutFile(size)
       IN /\ \/ disk' = disk
             \/ disk' = [f \in DOMAIN disk \cup {out_file} |->
                           IF f = out_file THEN Truncated ELSE disk[f]]
          /\ attempted' = Append(attempted, size)
    /\ failed' = TRUE
    /\ stderr' = Append(stderr, Traceback)
    /\ exitStatus' = 1
    /\ pc' = "exited"
    /\ UNCHANGED <<env, sizes, imported, existsChecked, i, stdout, written,
                   run, prev>>

(* Line 39: print(...) and back to the loop header *)

\* variant: the loop is left after the first confirmation
PrintConverted_break ==
    /\ pc = "print"
    /\ stdout' = Append(stdout, ConvertedLine(OutFile(sizes[i])))
    /\ exitStatus' = 0
    /\ pc' = "exited"
    /\ UNCHANGED <<env, sizes, imported, existsChecked, i, disk, stderr,
                   attempted, written, failed, run, prev>>

PrintConverted ==
    /\ pc = "print"
    /\ stdout' = Append(stdout, ConvertedLine(OutFile(sizes[i])))
    /\ i' = i + 1
    /\ pc' = "for"
    /\ UNCHANGED <<env, sizes, imported, existsChecked, disk, stderr,
                   exitStatus, attempted, written, failed, run, prev>>

(* The script is started again, on a host that may have changed; the     *)
(* working directory keeps what the earlier run left in it.              *)

RerunWith(newSizes) ==
    /\ pc = "exited"
    /\ run < MaxRuns
    /\ prev' = [exitStatus |-> exitStatus, written |-> written,
                disk |-> disk, sizes |-> sizes]
    /\ hasBinding' \in BOOLEAN
    /\ hasNative' \in BOOLEAN
    /\ svgExists' \in BOOLEAN
    /\ srcSizes' = newSizes
    /\ pc' = "import"
    /\ sizes' = <<>>
    /\ imported' = FALSE
    /\ existsChecked' = FALSE
    /\ i' = 1
    /\ stdout' = <<>>
    /\ stderr' = <<>>
    /\ exitStatus' = 0
    /\ attempted' = <<>>
    /\ written' = <<>>
    /\ failed' = FALSE
    /\ run' = run + 1
    /\ UNCHANGED disk

Rerun == RerunWith(srcSizes)

Next ==
    \/ ImportOK
    \/ ImportOSError
    \/ ImportImportError
    \/ SvgMissing
    \/ SvgFound
    \/ ForNext
    \/ ForDone
    \/ RenderOK
    \/ RenderFail
    \/ PrintConverted
    \/ Rerun

Spec == Init /\ [][Next]_vars

-----------------------------------------------------------------------------
(* The list `sizes` as something the user edits between runs (line 26:   *)
(* "add the sizes you want yourself").                                   *)

InitSizes ==
    /\ InitHost({{}, FileNames})
    /\ InitRun
    /\ srcSizes \in {s \in UNION {[1..n -> SizeUniverse] : n \in 0..MaxInitLen} :
                       IsDistinct(s)}
    /\ prev = [exitStatus |-> 1, written |-> <<>>, disk |-> disk,
               sizes |-> <<>>]

\* the user adds one size to the list, anywhere in it, and runs again
AddSizeAndRerun ==
    \E n \in SizeUniverse \ Range(srcSizes) :
      \E k \in 1..(Len(srcSizes) + 1) : RerunWith(InsertAt(srcSizes, k, n))

NextSizes == Next \/ AddSizeAndRerun

SpecSizes == InitSizes /\ [][NextSizes]_vars

TypeOK ==
    /\ pc \in {"import", "exists", "for", "render", "print", "exited"}
    /\ exitStatus \in {0, 1}
    /\ run \in 1..MaxRuns
    /\ i \in 1..(Len(sizes) + 1)
    /\ DOMAIN disk \subseteq FileNames

-----------------------------------------------------------------------------
(* Vocabulary of the properties *)

Exited == pc = "exited"

ImportResult == ImportCairosvg(hasBinding, hasNative)

\* the three ways the start-up checks can fail on this host
PreconditionFails == ImportResult # "ok" \/ ~svgExists

FilesOf(list) == {OutFile(list[k]) : k \in DOMAIN list}

FourFiles == {"chat-icon-16.png", "chat-icon-48.png", "chat-icon-128.png",
              "chat-icon-300.png"}

ThreeFiles == {"chat-icon-16.png", "chat-icon-48.png", "chat-icon-128.png"}

\* prev.disk is the working directory as the current run found it
DirAtStart == prev.disk

Untouched(f) ==
    /\ f \in DOMAIN disk <=> f \in DOMAIN DirAtStart
    /\ f \in DOMAIN disk => disk[f] = DirAtStart[f]

\* the run completed its loop: it ended, and not through sys.exit or a raise
Succeeded == Exited /\ exitStatus = 0

PrevSucceeded == run > 1 /\ prev.exitStatus = 0

-----------------------------------------------------------------------------
C2_PreconditionFailure ==
    /\ (Exited /\ PreconditionFails) =>
           /\ exitStatus = 1
           /\ written = <<>>
           /\ attempted = <<>>
           /\ disk = DirAtStart
    /\ pc \in {"for", "render", "print"} => ~PreconditionFails

C2_Witness ==
    /\ Exited /\ ImportResult = "ok" /\ ~svgExists /\ existsChecked
    /\ stdout = <<SvgMissingLine>>
    /\ DOMAIN disk # {}

C4_Original ==
    /\ (Exited /\ hasNative /\ ~hasBinding) =>
           stdout = <<BindingMissingLine>> /\ exitStatus # 0
    /\ (Exited /\ ~hasNative) =>
           stdout = CairoMissingLines /\ exitStatus # 0

(* C4 amended: the two dependency failures are mutually exclusive paths:  *)
(* a run on a host without the binding package emits only the binding     *)
(* instruction, whether or not the native library is there; a run on a    *)
(* host with the binding whose native library cannot be loaded emits only *)
(* the native-library diagnostic; both exit non-zero.                     *)
C4_DistinctDependencyFailures ==
    /\ ~(/\ BindingMissingLine \in Range(stdout)
         /\ Range(CairoMissingLines) \cap Range(stdout) # {})
    /\ (Exited /\ ~hasBinding) =>
           stdout = <<BindingMissingLine>> /\ exitStatus # 0
    /\ (Exited /\ hasBinding /\ ~hasNative) =>
           stdout = CairoMissingLines /\ exitStatus # 0

C4_Witness ==
    /\ Exited /\ ~hasBinding /\ ~hasNative
    /\ stdout = <<BindingMissingLine>>

(* C5 as stated: every terminated run has written all four files or none. *)
C5_Original ==
    Exited => Range(written) = {} \/ Range(written) = FourFiles

(* C5 amended: every run in which no render call fails is all-or-nothing: *)
(* either all preconditions pass and all four files are written, or the   *)
(* run aborts before any render and writes none; a terminated run has     *)
(* written a non-empty proper subset only when a render call failed.      *)
C5_AllOrNothingUnlessRenderFails ==
    /\ (Exited /\ ~failed) =>
           \/ ~PreconditionFails /\ exitStatus = 0
              /\ Range(written) = FourFiles
           \/ PreconditionFails /\ exitStatus = 1
              /\ written = <<>> /\ attempted = <<>>
    /\ (Exited /\ Range(written) \notin {{}, FourFiles}) => failed

C5_Witness ==
    /\ Exited /\ ~failed /\ Range(written) = FourFiles
    /\ run > 1 /\ prev.exitStatus = 1 /\ prev.written # <<>>

(* C6: when a render call fails the process ends at that iteration with a *)
(* non-zero status: no render is attempted for a later size, no           *)
(* confirmation is printed for the failing size, and the files written    *)
(* for the earlier sizes stay as they were written.                       *)
C6_RenderFailureAborts ==
    failed =>
        /\ Exited
        /\ exitStatus # 0
        /\ Len(attempted) = Len(written) + 1
        /\ attempted = SubSeq(sizes, 1, Len(attempted))
        /\ Confirmations = [k \in 1..Len(written) |-> ConvertedLine(written[k])]
        /\ ConvertedLine(OutFile(attempted[Len(attempted)])) \notin Range(stdout)
        /\ \A k \in 1..Len(written) :
              /\ written[k] = OutFile(sizes[k])
              /\ disk[written[k]] = [w |-> sizes[k], h |-> sizes[k]]

C6_Witness ==
    /\ failed /\ Exited
    /\ Len(written) = 2
    /\ attempted = <<16, 48, 128>>
    /\ "chat-icon-128.png" \in DOMAIN disk
    /\ disk["chat-icon-128.png"] = Truncated

(* C7: a second successful run after a successful run leaves the same     *)
(* files with the same dimensions: it renders every size again, over the  *)
(* files that are there, and skips or fails none of them.                 *)
C7_RerunIdempotent ==
    (Succeeded /\ PrevSucceeded /\ sizes = prev.sizes) =>
        /\ written = prev.written
        /\ attempted = sizes
        /\ DOMAIN disk = DOMAIN DirAtStart
        /\ \A f \in DOMAIN disk : disk[f] = DirAtStart[f]

C7_Witness ==
    /\ Succeeded /\ PrevSucceeded
    /\ Len(written) = 4
    /\ Range(prev.written) \subseteq DOMAIN DirAtStart

(* C8: a successful run writes exactly the three files                    *)
(* chat-icon-16.png, chat-icon-48.png and chat-icon-128.png.              *)
C8_ThreeSizes ==
    (Succeeded /\ ~failed) => Range(written) = ThreeFiles

(* C9: for a list L of distinct sizes and a size n not in L, a successful *)
(* run with L followed by a successful run with L plus n yields exactly   *)
(* one more output file, chat-icon-<n>.png of n x n, and every file the   *)
(* first run wrote keeps its name and dimensions.                         *)
C9_SizeAdded ==
    \A n \in SizeUniverse :
        (/\ Succeeded /\ PrevSucceeded
         /\ n \notin Range(prev.sizes)
         /\ Range(sizes) = Range(prev.sizes) \cup {n}
         /\ Len(sizes) = Len(prev.sizes) + 1) =>
            /\ Range(written) = Range(prev.written) \cup {OutFile(n)}
            /\ OutFile(n) \notin Range(prev.written)
            /\ Cardinality(Range(written)) =
                   Cardinality(Range(prev.written)) + 1
            /\ disk[OutFile(n)] = [w |-> n, h |-> n]
            /\ \A f \in Range(prev.written) : disk[f] = DirAtStart[f]

C9_Witness ==
    /\ Succeeded /\ PrevSucceeded
    /\ Len(prev.sizes) = 2
    /\ Len(sizes) = 3
    /\ sizes[2] \notin Range(prev.sizes)
    /\ Cardinality(Range(written)) = 3

(* C10: the loop is sequential in list order: the files written by the    *)
(* run are always those of a prefix of (16, 48, 128, 300); the            *)
(* confirmation for a size is printed after its file is written and       *)
(* before the next render starts, so the confirmations printed number as  *)
(* many as the files written or one less, and as many on success.         *)
C10_SequentialLoop ==
    /\ Len(written) <= Len(DefaultSizes)
    /\ written = [k \in 1..Len(written) |-> OutFile(DefaultSizes[k])]
    /\ Len(Confirmations) <= Len(written)
    /\ Confirmations =
           [k \in 1..Len(Confirmations) |-> ConvertedLine(written[k])]
    /\ Len(Confirmations) \in {Len(written), Len(written) - 1}
    /\ pc = "print" => Len(Confirmations) = Len(written) - 1
    /\ pc \in {"for", "render"} => Len(Confirmations) = Len(written)
    /\ Succeeded => Len(Confirmations) = Len(written)

C10_Witness ==
    /\ pc = "print"
    /\ Len(written) = 3
    /\ Len(Confirmations) = 2

====
